---- MODULE Spec2Model ----
(***************************************************************************)
(* Model of src/shared/util.js: the backend configurator                   *)
(* (setBackendAndEnvFlags / resetBackend) and the overlay renderer         *)
(* (drawResults).                                                          *)
(*                                                                         *)
(* Strings that the code splits or builds ("tfjs-webgl") are sequences of  *)
(* tokens in which "-" is the separator token.  A JavaScript undefined     *)
(* string or point is the empty sequence.  Canvas numbers are exact        *)
(* rationals, kept as integers in units of 1/Unit pixel.                   *)
(***************************************************************************)
EXTENDS Integers, Sequences, FiniteSets, TLC

\* faces, imgSeen, ctx and raised record the last drawResults call: its
\* argument, the image as it was then, the canvas calls and whether it threw.
\* call, pre, result and events record the last setBackendAndEnvFlags call.
VARIABLES env, ENGINE, State, pc, target, call, pre, result, events,
          img, faces, imgSeen, ctx, raised

confVars == <<env, ENGINE, State, pc, target, call, pre, result, events>>
drawVars == <<img, faces, imgSeen, ctx, raised>>
vars == <<env, ENGINE, State, pc, target, call, pre, result, events,
          img, faces, imgSeen, ctx, raised>>

(***************************************************************************)
(* Bounds of the explored inputs.                                          *)
(***************************************************************************)
MaxConfigLen == 2
MaxFaces == 2
MaxKeypoints == 3

Undefined == << >>
SEP == "-"

(***************************************************************************)
(* Backend configurator                                                    *)
(***************************************************************************)

\* The allow-list imported from ./params: flag name -> legal values.
TUNABLE_FLAG_VALUE_RANGE_MAP ==
    [f \in {"WEBGL_PACK", "WEBGL_VERSION"} |->
        IF f = "WEBGL_PACK" THEN {"true", "false"} ELSE {"1", "2"}]

\* The entries tried: for each tunable flag a legal value and a value legal
\* only for the other flag, and one flag outside the allow-list.
FlagEntries ==
    { <<"WEBGL_PACK", "true">>, <<"WEBGL_PACK", "2">>,
      <<"WEBGL_VERSION", "2">>, <<"WEBGL_VERSION", "true">>,
      <<"BOGUS_FLAG", "true">> }

RECURSIVE DistinctKeys(_)
DistinctKeys(entries) ==
    IF entries = << >> THEN TRUE
    ELSE /\ \A i \in 2..Len(entries) : entries[i][1] # entries[1][1]
         /\ DistinctKeys(Tail(entries))

\* The own enumerable properties of an object, in for-in order.
EntryLists ==
    { s \in UNION { [1..n -> FlagEntries] : n \in 0..MaxConfigLen } :
        DistinctKeys(s) }

FlagConfigs ==
    { [kind |-> k, entries |-> << >>] : k \in {"null", "undefined", "string"} }
    \cup { [kind |-> "object", entries |-> s] : s \in EntryLists }

BackendIds ==
    { <<"tfjs", SEP, "webgl">>, <<"tfjs", SEP, "cpu">>, <<"tfjs", SEP, "webgpu">>,
      <<"tfjs", SEP, "wasm">>, <<"tfjs">>,
      <<"mediapipe", SEP, "gpu">>, <<"mediapipe", SEP, "webgl">> }

\* flagConfig == null
IsNullishStrict(c) == c.kind = "null"
IsNullish(c) == c.kind \in {"null", "undefined"}

\* typeof flagConfig
typeof(c) == IF c.kind = "null" THEN "object" ELSE c.kind

\* flag in TUNABLE_FLAG_VALUE_RANGE_MAP
IsTunable(flag) == flag \in DOMAIN TUNABLE_FLAG_VALUE_RANGE_MAP

\* TUNABLE_FLAG_VALUE_RANGE_MAP[flag].indexOf(value) !== -1
InRangeAny(flag, value) == TRUE
InRange(flag, value) == value \in TUNABLE_FLAG_VALUE_RANGE_MAP[flag]

\* The validation loop: the first offending entry in enumeration order decides.
RECURSIVE ValidationErrorSkipUnknown(_)
ValidationErrorSkipUnknown(entries) ==
    IF entries = << >> THEN "none"
    ELSE LET flag == Head(entries)[1]
             value == Head(entries)[2]
         IN  IF ~IsTunable(flag) THEN ValidationErrorSkipUnknown(Tail(entries))
             ELSE IF ~InRange(flag, value) THEN "InvalidFlagValue"
             ELSE ValidationErrorSkipUnknown(Tail(entries))

RECURSIVE ValidationError(_)
ValidationError(entries) ==
    IF entries = << >> THEN "none"
    ELSE LET flag == Head(entries)[1]
             value == Head(entries)[2]
         IN  IF ~IsTunable(flag) THEN "UnknownFlag"
             ELSE IF ~InRange(flag, value) THEN "InvalidFlagValue"
             ELSE ValidationError(Tail(entries))

\* tf.env().setFlags(flagConfig)
Keys(entries) == { entries[i][1] : i \in DOMAIN entries }
ValueOf(entries, k) == entries[CHOOSE i \in DOMAIN entries : entries[i][1] = k][2]
setFlags(e, entries) ==
    [f \in DOMAIN e \cup Keys(entries) |->
        IF f \in Keys(entries) THEN ValueOf(entries, f) ELSE e[f]]

\* backend.split('-')
RECURSIVE SplitFrom(_, _)
SplitFrom(s, cur) ==
    IF s = << >> THEN <<cur>>
    ELSE IF Head(s) = SEP THEN <<cur>> \o SplitFrom(Tail(s), "")
    ELSE SplitFrom(Tail(s), cur \o Head(s))
split(s) == SplitFrom(s, "")

\* const [runtime, $backend] = ...  (a missing element is undefined, which
\* the in operator and the template literal turn into "undefined")
Element(parts, i) == IF i \in DOMAIN parts THEN parts[i] ELSE "undefined"

\* runtime === 'tfjs'
NeedsResetAlways(runtime) == TRUE
NeedsReset(runtime) == runtime = "tfjs"

\* !!STATE.lastTFJSBackend ? STATE.lastTFJSBackend : 'tfjs-webgl'
FallbackBackendDefault(last) == <<"tfjs", SEP, "webgl">>
FallbackBackend(last) == IF last # Undefined THEN last ELSE <<"tfjs", SEP, "webgl">>

\* `tfjs-${backendName}`
LastRecorded(backendName) == <<"tfjs", SEP, backendName>>

\* resetBackend, backendName not in ENGINE.registryFactory
NotRegisteredEager(backendName, S) ==
    [ err    |-> IF backendName = "webgpu" THEN "none" ELSE "BackendNotRegistered",
      State  |-> [S EXCEPT !.backend = FallbackBackend(S.lastTFJSBackend)],
      events |-> IF backendName = "webgpu"
                 THEN <<"alert", "showBackendConfigs">> ELSE << >> ]
NotRegisteredRecords(backendName, S) ==
    IF backendName = "webgpu"
    THEN [ err    |-> "none",
           State  |-> [S EXCEPT !.backend = FallbackBackend(S.lastTFJSBackend),
                                !.lastTFJSBackend = LastRecorded(backendName)],
           events |-> <<"alert", "showBackendConfigs">> ]
    ELSE [ err |-> "BackendNotRegistered", State |-> S, events |-> << >> ]
NotRegistered(backendName, S) ==
    IF backendName = "webgpu"
    THEN [ err    |-> "none",
           State  |-> [S EXCEPT !.backend = FallbackBackend(S.lastTFJSBackend)],
           events |-> <<"alert", "showBackendConfigs">> ]
    ELSE [ err |-> "BackendNotRegistered", State |-> S, events |-> << >> ]

\* tf.removeBackend(name): the instance and the factory go; the engine has
\* no current backend if it was the current one.
removeBackend(E, name) ==
    [ registryFactory |-> E.registryFactory \ {name},
      registry        |-> E.registry \ {name},
      backendName     |-> IF E.backendName = name THEN "none" ELSE E.backendName ]

\* tf.registerBackend(name, factory)
registerBackend(E, name) ==
    [E EXCEPT !.registryFactory = E.registryFactory \cup {name}]

\* resetBackend, if (backendName in ENGINE.registry) { ... }
ReRegisterAlways(E, name) ==
    [ ENGINE |-> registerBackend(removeBackend(E, name), name),
      events |-> <<"removeBackend", "registerBackend">> ]
ReRegister(E, name) ==
    IF name \in E.registry
    THEN [ ENGINE |-> registerBackend(removeBackend(E, name), name),
           events |-> <<"removeBackend", "registerBackend">> ]
    ELSE [ ENGINE |-> E, events |-> << >> ]

\* tf.setBackend(name), once its promise has resolved
setBackend(E, name) ==
    [E EXCEPT !.registry = E.registry \cup {name}, !.backendName = name]

Snapshot == [env |-> env, ENGINE |-> ENGINE, State |-> State]

\* The flag environment after the validation loop and line 101.
EnvAfter(c, e) ==
    IF ValidationError(c.entries) = "none" THEN setFlags(e, c.entries) ELSE e

ConfInit ==
    /\ env = [f \in DOMAIN TUNABLE_FLAG_VALUE_RANGE_MAP |->
                IF f = "WEBGL_PACK" THEN "false" ELSE "1"]
    /\ ENGINE \in { [registryFactory |-> rf, registry |-> {}, backendName |-> "none"] :
                      rf \in { {"webgl", "cpu"}, {"webgl", "webgpu"} } }
    /\ State \in { [backend |-> b, lastTFJSBackend |-> Undefined] :
                      b \in { <<"tfjs", SEP, "webgl">>, <<"mediapipe", SEP, "gpu">> } }
    /\ pc = "idle"
    /\ target = "none"
    /\ call = [flagConfig |-> [kind |-> "null", entries |-> << >>], backend |-> <<"tfjs">>]
    /\ pre = Snapshot
    /\ result = "none"
    /\ events = << >>

\* setBackendAndEnvFlags(flagConfig, backend), up to its first suspension.
setBackendAndEnvFlags(flagConfig, backend) ==
    /\ pc = "idle"
    /\ call' = [flagConfig |-> flagConfig, backend |-> backend]
    /\ pre' = Snapshot
    /\ IF IsNullish(flagConfig)
       THEN /\ result' = "ok"
            /\ events' = << >>
            /\ UNCHANGED <<env, ENGINE, State, pc, target>>
       ELSE IF typeof(flagConfig) # "object"
       THEN /\ result' = "InvalidArgument"
            /\ events' = << >>
            /\ UNCHANGED <<env, ENGINE, State, pc, target>>
       ELSE IF ValidationError(flagConfig.entries) # "none"
       THEN /\ result' = ValidationError(flagConfig.entries)
            /\ events' = << >>
            /\ env' = EnvAfter(flagConfig, env)
            /\ UNCHANGED <<ENGINE, State, pc, target>>
       ELSE LET parts == split(backend)
                runtime == Element(parts, 1)
                backendName == Element(parts, 2)
            IN  /\ env' = EnvAfter(flagConfig, env)
                /\ IF ~NeedsReset(runtime)
                   THEN /\ result' = "ok"
                        /\ events' = <<"setFlags">>
                        /\ UNCHANGED <<ENGINE, State, pc, target>>
                   ELSE IF backendName \notin ENGINE.registryFactory
                   THEN LET o == NotRegistered(backendName, State)
                        IN  /\ result' = IF o.err = "none" THEN "ok" ELSE o.err
                            /\ State' = o.State
                            /\ events' = <<"setFlags">> \o o.events
                            /\ UNCHANGED <<ENGINE, pc, target>>
                   ELSE LET r == ReRegister(ENGINE, backendName)
                        IN  /\ ENGINE' = r.ENGINE
                            /\ events' = <<"setFlags">> \o r.events \o <<"setBackend">>
                            /\ pc' = "awaitSetBackend"
                            /\ target' = backendName
                            /\ result' = "pending"
                            /\ UNCHANGED State
    /\ UNCHANGED drawVars

\* The promise of tf.setBackend resolves: the backend is the current one.
SetBackendResolves ==
    /\ pc = "awaitSetBackend"
    /\ ENGINE' = setBackend(ENGINE, target)
    /\ events' = Append(events, "activated")
    /\ pc' = "resume"
    /\ UNCHANGED <<env, State, target, call, pre, result, drawVars>>

\* resetBackend resumes after the await, and the call settles.
ResetBackendResumes ==
    /\ pc = "resume"
    /\ State' = [State EXCEPT !.lastTFJSBackend = LastRecorded(target)]
    /\ events' = Append(events, "lastTFJSBackend")
    /\ result' = "ok"
    /\ pc' = "idle"
    /\ UNCHANGED <<env, ENGINE, target, call, pre, drawVars>>

DrawIdle ==
    /\ img = [complete |-> FALSE, naturalWidth |-> 0]
    /\ faces = << >>
    /\ imgSeen = img
    /\ ctx = << >>
    /\ raised = FALSE

Init == ConfInit /\ DrawIdle

Call == \E c \in FlagConfigs, b \in BackendIds : setBackendAndEnvFlags(c, b)

Next ==
    \/ Call
    \/ SetBackendResolves
    \/ ResetBackendResumes

Spec == Init /\ [][Next]_vars

(***************************************************************************)
(* Overlay renderer                                                        *)
(***************************************************************************)

\* Canvas numbers are held in units of 1/Unit pixel, so that /2, /2/2 and
\* /1.7 (= *10/17) are exact.
Unit == 4 * 17

\* Eye positions whose pairwise distances are whole numbers (0, 15, 20, 25).
EyePoints == { [x |-> 10, y |-> 10], [x |-> 30, y |-> 10], [x |-> 10, y |-> 25] }
OtherPoint == [x |-> 20, y |-> 20]

\* Keypoint lists of 0..MaxKeypoints elements; elements 1 and 2 (from 0) are
\* the eyes, the others are fixed.
KeypointLists ==
    UNION { { s \in [1..n -> EyePoints \cup {OtherPoint}] :
                \A i \in 1..n : (i \in {2, 3}) <=> (s[i] \in EyePoints) } :
            n \in 0..MaxKeypoints }

Faces == { [keypoints |-> k] : k \in KeypointLists }
FaceLists == UNION { [1..n -> Faces] : n \in 0..MaxFaces }

\* array[i], undefined past the end
At(arr, i) == IF i + 1 \in DOMAIN arr THEN arr[i + 1] ELSE Undefined

\* Math.sqrt on the squares that occur
Sqrt(n) == CHOOSE r \in 0..n : r * r = n

\* img.complete && img.naturalWidth > 0
ImgReadyCompleteOnly(image) == image.complete
ImgReady(image) == image.complete /\ image.naturalWidth > 0

\* leftEye && rightEye
BothEyesLeftOnly(leftEye, rightEye) == leftEye # Undefined
BothEyes(leftEye, rightEye) == leftEye # Undefined /\ rightEye # Undefined

Op(name, a, b, c, d) == [op |-> name, x |-> a, y |-> b, w |-> c, h |-> d]
Arc(p) == [op |-> "arc", x |-> Unit * p[1], y |-> Unit * p[2], w |-> Unit * 3, h |-> 0]

\* The placement of the glasses for two eye points.
Glasses(leftEye, rightEye) ==
    LET centerX == (Unit * (leftEye[1] + rightEye[1])) \div 2
        centerY == (Unit * (leftEye[2] + rightEye[2])) \div 2
        eyeDistance == Sqrt((rightEye[1] - leftEye[1]) * (rightEye[1] - leftEye[1])
                            + (rightEye[2] - leftEye[2]) * (rightEye[2] - leftEye[2]))
        glassesWidth == Unit * eyeDistance * 3
        glassesHeight == glassesWidth \div 2
        glassesX == centerX - (glassesWidth * 10) \div 17
        glassesY == centerY - glassesHeight \div 2
    IN  Op("drawImage", glassesX, glassesY, glassesWidth, glassesHeight)

\* The body of the forEach callback for one face: the canvas calls it
\* issues, and whether it throws (an index read of undefined).
DrawFace(face, image) ==
    LET keypoints == [i \in DOMAIN face.keypoints |->
                        <<face.keypoints[i].x, face.keypoints[i].y>>]
        leftEye == At(keypoints, 1)
        rightEye == At(keypoints, 2)
    IN  IF BothEyes(leftEye, rightEye)
        THEN IF leftEye = Undefined \/ rightEye = Undefined
             THEN [calls |-> << >>, raised |-> TRUE]
             ELSE IF ImgReady(image)
             THEN [calls |-> <<Glasses(leftEye, rightEye)>>, raised |-> FALSE]
             ELSE [calls |-> << Op("beginPath", 0, 0, 0, 0), Arc(leftEye),
                                Arc(rightEye), Op("fill", 0, 0, 0, 0) >>,
                   raised |-> FALSE]
        ELSE [calls |-> << >>, raised |-> FALSE]

\* faces.forEach(...): in order, stopping at a face that throws.
RECURSIVE forEachFace(_, _)
forEachFace(fs, image) ==
    IF fs = << >> THEN [calls |-> << >>, raised |-> FALSE]
    ELSE LET d == DrawFace(Head(fs), image)
         IN  IF d.raised THEN d
             ELSE LET rest == forEachFace(Tail(fs), image)
                  IN  [calls |-> d.calls \o rest.calls, raised |-> rest.raised]

drawResults(fs, boundingBox, showKeypoints) ==
    /\ faces' = fs
    /\ imgSeen' = img
    /\ ctx' = forEachFace(fs, img).calls
    /\ raised' = forEachFace(fs, img).raised
    /\ UNCHANGED <<img, confVars>>

\* img.onload
ImgOnLoad ==
    /\ ~img.complete
    /\ img' = [complete |-> TRUE, naturalWidth |-> 512]
    /\ UNCHANGED <<faces, imgSeen, ctx, raised, confVars>>

\* img.onerror
ImgOnError ==
    /\ ~img.complete
    /\ img' = [complete |-> TRUE, naturalWidth |-> 0]
    /\ UNCHANGED <<faces, imgSeen, ctx, raised, confVars>>

\* One frame is followed: the canvas log is that of the first non-empty frame.
Draw == faces = << >> /\ \E fs \in FaceLists, bb \in BOOLEAN, sk \in BOOLEAN : drawResults(fs, bb, sk)

NextDraw ==
    \/ ImgOnLoad
    \/ ImgOnError
    \/ Draw

SpecDraw == Init /\ [][NextDraw]_vars

(***************************************************************************)
(* Properties of the backend configurator (checked under Spec)             *)
(***************************************************************************)

TfjsWebgl == <<"tfjs", SEP, "webgl">>
TfjsWebgpu == <<"tfjs", SEP, "webgpu">>
Called == result # "none"
Entries == call.flagConfig.entries
IsObject == call.flagConfig.kind = "object"
UnknownKey(e) == e[1] \notin {"WEBGL_PACK", "WEBGL_VERSION"}
BadValue(e) ==
    \/ e[1] = "WEBGL_PACK" /\ e[2] \notin {"true", "false"}
    \/ e[1] = "WEBGL_VERSION" /\ e[2] \notin {"1", "2"}
Offending(e) == UnknownKey(e) \/ BadValue(e)
HasUnknownKey == \E i \in DOMAIN Entries : UnknownKey(Entries[i])
HasBadValue == \E i \in DOMAIN Entries : BadValue(Entries[i])
ValidConfig == IsObject /\ \A i \in DOMAIN Entries : ~Offending(Entries[i])
FirstOffending ==
    Entries[CHOOSE i \in DOMAIN Entries :
                /\ Offending(Entries[i])
                /\ \A j \in 1..(i - 1) : ~Offending(Entries[j])]
Applied ==
    [f \in DOMAIN pre.env \cup { Entries[i][1] : i \in DOMAIN Entries } |->
        IF \E i \in DOMAIN Entries : Entries[i][1] = f
        THEN Entries[CHOOSE i \in DOMAIN Entries : Entries[i][1] = f][2]
        ELSE pre.env[f]]
Count(seq, x) == Cardinality({ i \in DOMAIN seq : seq[i] = x })
Occurs(seq, x) == \E i \in DOMAIN seq : seq[i] = x
ErrorKinds == {"InvalidArgument", "UnknownFlag", "InvalidFlagValue", "BackendNotRegistered"}

\* C1 as stated: a call that fails with any of the four error kinds leaves
\* the environment flags, the engine and STATE as they were before the call.
C1_AllErrorsBeforeMutation ==
    result \in ErrorKinds => Snapshot = pre

\* C1, amended: InvalidArgument, UnknownFlag and InvalidFlagValue leave the
\* flags, the engine and STATE as before the call; BackendNotRegistered leaves
\* the engine and STATE as before the call, with the validated flag config
\* already applied to the environment flags.
C1_ErrorsAndMutation ==
    /\ result \in {"InvalidArgument", "UnknownFlag", "InvalidFlagValue"}
          => Snapshot = pre
    /\ result = "BackendNotRegistered"
          => /\ ENGINE = pre.ENGINE
             /\ State = pre.State
             /\ env = Applied

C1_Witness ==
    /\ result = "BackendNotRegistered"
    /\ call.backend = <<"tfjs", SEP, "wasm">>
    /\ env # pre.env
    /\ State.backend # FallbackBackend(State.lastTFJSBackend)

C4_WebgpuFallback ==
    (Called /\ ValidConfig /\ call.backend = TfjsWebgpu
        /\ "webgpu" \notin pre.ENGINE.registryFactory)
        => /\ result = "ok"
           /\ pc = "idle"
           /\ State.backend = IF pre.State.lastTFJSBackend # Undefined
                              THEN pre.State.lastTFJSBackend ELSE TfjsWebgl
           /\ Count(events, "showBackendConfigs") = 1
           /\ \A e \in {"removeBackend", "registerBackend", "setBackend", "activated"} :
                  ~Occurs(events, e)
           /\ ENGINE = pre.ENGINE
           /\ State.lastTFJSBackend = pre.State.lastTFJSBackend

C4_Witness ==
    /\ Called /\ ValidConfig /\ call.backend = TfjsWebgpu
    /\ "webgpu" \notin pre.ENGINE.registryFactory
    /\ pre.State.lastTFJSBackend = <<"tfjs", SEP, "cpu">>
    /\ pre.State.backend # <<"tfjs", SEP, "cpu">>
    /\ State.backend = <<"tfjs", SEP, "cpu">>

\* C5: on the reset path the events are, in this order, removal and
\* re-registration (exactly when the backend was live before the call), the
\* activation, its completion, the write of lastTFJSBackend; the call has
\* settled exactly when all of them have happened, the backend is not current
\* while the activation is awaited, and lastTFJSBackend keeps its old value
\* until the activation has completed.
ResetEvents ==
    <<"setFlags">>
    \o (IF target \in pre.ENGINE.registry
        THEN <<"removeBackend", "registerBackend">> ELSE << >>)
    \o <<"setBackend", "activated", "lastTFJSBackend">>

C5_ResetOrder ==
    Occurs(events, "setBackend")
        => /\ Len(events) <= Len(ResetEvents)
           /\ events = SubSeq(ResetEvents, 1, Len(events))
           /\ (result = "ok") <=> (events = ResetEvents)
           /\ (pc = "idle") <=> (events = ResetEvents)
           /\ ~Occurs(events, "activated") => ENGINE.backendName # target
           /\ ~Occurs(events, "activated")
                 => State.lastTFJSBackend = pre.State.lastTFJSBackend
           /\ Occurs(events, "activated") => ENGINE.backendName = target
           /\ result = "ok" => State.lastTFJSBackend = <<"tfjs", SEP, target>>

C5_Witness ==
    /\ result = "ok"
    /\ call.backend = TfjsWebgl
    /\ "webgl" \in pre.ENGINE.registry
    /\ events = <<"setFlags", "removeBackend", "registerBackend",
                  "setBackend", "activated", "lastTFJSBackend">>

\* C6: a call with a null or undefined flagConfig succeeds for every backend
\* identifier and changes nothing: flags, engine and STATE are as before, and
\* neither the reset procedure nor showBackendConfigs runs.
C6_NullConfigNoOp ==
    (Called /\ call.flagConfig.kind \in {"null", "undefined"})
        => /\ result = "ok"
           /\ pc = "idle"
           /\ Snapshot = pre
           /\ events = << >>

C6_Witness ==
    /\ Called
    /\ call.flagConfig.kind = "undefined"
    /\ call.backend = <<"tfjs", SEP, "wasm">>
    /\ result = "ok"

\* C9: a valid config with a backend identifier whose runtime part is not
\* "tfjs": the flags are applied and nothing else happens; the engine and
\* STATE are as before the call.
C9_FlagsOnly ==
    (Called /\ ValidConfig /\ call.backend[1] # "tfjs")
        => /\ result = "ok"
           /\ pc = "idle"
           /\ env = Applied
           /\ events = <<"setFlags">>
           /\ ENGINE = pre.ENGINE
           /\ State = pre.State

C9_Witness ==
    /\ Called /\ ValidConfig
    /\ call.backend = <<"mediapipe", SEP, "webgl">>
    /\ "webgl" \in ENGINE.registryFactory
    /\ env # pre.env
    /\ result = "ok"

\* C10: whenever no call is in progress, lastTFJSBackend is unset or is
\* "tfjs-" followed by the name of the engine's current backend.
C10_LastIsCurrent ==
    pc = "idle"
        => \/ State.lastTFJSBackend = Undefined
           \/ State.lastTFJSBackend = <<"tfjs", SEP, ENGINE.backendName>>

C10_Witness ==
    /\ pc = "idle"
    /\ result = "BackendNotRegistered"
    /\ State.lastTFJSBackend = <<"tfjs", SEP, "cpu">>
    /\ State.backend = <<"tfjs", SEP, "webgl">>
    /\ ENGINE.registry = {"webgl", "cpu"}

(***************************************************************************)
(* Properties of the overlay renderer (checked under SpecDraw)             *)
(***************************************************************************)

HasEyeKeypoints(f) == Len(f.keypoints) >= 3
CompleteFaces == SelectSeq(faces, HasEyeKeypoints)
Loaded == imgSeen.complete /\ imgSeen.naturalWidth # 0
CallsPerFace == IF Loaded THEN 1 ELSE 4
LeftOf(f) == f.keypoints[2]
RightOf(f) == f.keypoints[3]
DistSq(f) ==
    (RightOf(f).x - LeftOf(f).x) * (RightOf(f).x - LeftOf(f).x)
    + (RightOf(f).y - LeftOf(f).y) * (RightOf(f).y - LeftOf(f).y)
Circle(p) == [op |-> "arc", x |-> Unit * p.x, y |-> Unit * p.y, w |-> Unit * 3, h |-> 0]
ExampleFace ==
    [keypoints |-> <<OtherPoint, [x |-> 10, y |-> 10], [x |-> 30, y |-> 10]>>]

\* C7: a face without the keypoint of index 1 or of index 2 issues no canvas
\* call and raises nothing; the calls issued are those issued for the list
\* without such faces, in the same order.
C7_IncompleteFaceSkipped ==
    /\ ~raised
    /\ ctx = forEachFace(CompleteFaces, imgSeen).calls
    /\ Len(ctx) = CallsPerFace * Len(CompleteFaces)

C7_Witness ==
    /\ Len(faces) = 2
    /\ Len(faces[1].keypoints) = 2
    /\ HasEyeKeypoints(faces[2])
    /\ Len(ctx) = CallsPerFace
    /\ ~raised

\* C8: for the j-th face with both eye keypoints: when the image is complete
\* with a nonzero natural width, exactly one drawImage whose width is 3 x
\* the eye distance, whose height is half the width and whose position is
\* the eye midpoint less width/1.7 and height/2, and no circle; otherwise
\* exactly beginPath, an arc at each raw eye position, fill, and no drawImage.
C8_OverlayGeometry ==
    /\ Len(ctx) = CallsPerFace * Len(CompleteFaces)
    /\ \A j \in DOMAIN CompleteFaces :
          LET f == CompleteFaces[j]
          IN  IF Loaded
              THEN LET c == ctx[j]
                   IN  /\ c.op = "drawImage"
                       /\ c.w >= 0
                       /\ c.w * c.w = 9 * Unit * Unit * DistSq(f)
                       /\ 2 * c.h = c.w
                       /\ 34 * c.x + 20 * c.w = 17 * Unit * (LeftOf(f).x + RightOf(f).x)
                       /\ 2 * c.y + c.h = Unit * (LeftOf(f).y + RightOf(f).y)
                       /\ f = ExampleFace => (c.w = 60 * Unit /\ c.h = 30 * Unit)
              ELSE SubSeq(ctx, 4 * j - 3, 4 * j) =
                       << Op("beginPath", 0, 0, 0, 0), Circle(LeftOf(f)),
                          Circle(RightOf(f)), Op("fill", 0, 0, 0, 0) >>

C8_Witness ==
    /\ faces = <<ExampleFace>>
    /\ imgSeen.complete /\ imgSeen.naturalWidth = 0
    /\ ctx = << Op("beginPath", 0, 0, 0, 0),
                [op |-> "arc", x |-> Unit * 10, y |-> Unit * 10, w |-> Unit * 3, h |-> 0],
                [op |-> "arc", x |-> Unit * 30, y |-> Unit * 10, w |-> Unit * 3, h |-> 0],
                Op("fill", 0, 0, 0, 0) >>

====
